---- MODULE Spec2Model ----
(***************************************************************************)
(* Model of volo_watch_once.py: one watcher run (load_seen, page load and  *)
(* response capture, filter chain, notify / attempt_signup loop,           *)
(* save_seen) repeated over a persisted state file.                        *)
(*                                                                         *)
(* Text is modelled as a sequence of words; a JSON document is modelled    *)
(* by the atoms (keys and string values) of its serialization.             *)
(***************************************************************************)
EXTENDS Integers, Sequences, FiniteSets, TLC

(* ------------------------------ bounds -------------------------------- *)
\* number of network responses captured during one page load
MaxResponses == 2
\* number of runs of main() in one behaviour
MaxRuns == 2
\* size of the modelled id space of stable_id (sha256 prefix)
HashSpace == 2
\* nesting depth of the payloads given to extract_events
MaxDepth == 2

(* --------------------------- configuration ---------------------------- *)
DISCOVER_URL == "https://volo/discover"
VENUE_ID == "V1"
DefaultTitle == <<"Volo", "Volleyball">>

OPEN_PLAY_KEYWORDS ==
    << <<"open", "play">>, <<"pickup">>, <<"pick-up">>, <<"drop-in">>,
       <<"drop", "in">>, <<"open", "gym">>, <<"open", "volleyball">> >>

(* ------------------------------- text --------------------------------- *)
\* a run of whitespace longer than one blank, kept as a token of the text
WS == "  "

Lower(w) ==
    CASE w = "Volleyball" -> "volleyball"
      [] w = "Volo"       -> "volo"
      [] w = "Pickup"     -> "pickup"
      [] w = "Open"       -> "open"
      [] w = "Play"       -> "play"
      [] w = "League"     -> "league"
      [] w = "SOLD"       -> "sold"
      [] w = "OUT"        -> "out"
      [] w = "Pier"       -> "pier"
      [] w = "Gym"        -> "gym"
      [] w = "Captcha"    -> "captcha"
      [] w = "Card"       -> "card"
      [] w = "Number"     -> "number"
      [] w = "Register"   -> "register"
      [] w = "Join"       -> "join"
      [] w = "Sign"       -> "sign"
      [] w = "Up"         -> "up"
      [] w = "Enroll"     -> "enroll"
      [] w = "Cancel"     -> "cancel"
      [] w = "Confirm"    -> "confirm"
      [] w = "Now"        -> "now"
      [] w = "Welcome"    -> "welcome"
      [] w = "V1"         -> "v1"
      [] w = "V2"         -> "v2"
      [] w = "T18"        -> "t18"
      [] w = "T19"        -> "t19"
      [] w = "venueId"    -> "venueid"
      [] w = "Title"      -> "title"
      [] w = "Waitlist"   -> "waitlist"
      [] w = "startTime"  -> "starttime"
      [] w = "startsAt"   -> "startsat"
      [] OTHER            -> w

NotWS(w) == w # WS

\* re.sub(r"\s+", " ", text).strip().lower()
normalize(text) ==
    LET t == SelectSeq(text, NotWS)
    IN  [i \in DOMAIN t |-> Lower(t[i])]

\* Python `kw in text` at word granularity: kw is a contiguous run of text
Contains(text, kw) ==
    \E i \in 0..(Len(text) - Len(kw)) :
        \A j \in 1..Len(kw) : text[i + j] = kw[j]

(* ------------------------------ events -------------------------------- *)
\* A candidate event is a dict; an absent key is the empty value, and venue
\* stands for the name held by the nested venue dict.
EventKeys == <<"title", "name", "start", "venueId", "venue", "sport", "url", "link", "note">>

Ev(title, name, start, venueId, venue, sport, url, link, note) ==
    [title |-> title, name |-> name, start |-> start, venueId |-> venueId,
     venue |-> venue, sport |-> sport, url |-> url, link |-> link, note |-> note]

\* the fixture dicts a response body can hold
EvPickup   == Ev(<<"Volleyball", "Pickup">>, <<>>, <<"T18">>, <<"V1">>, <<>>,
                 <<"Volleyball">>, <<"https://volo/e1">>, <<>>, <<>>)
\* another dict with the summary and the link of EvPickup
EvPickupB  == Ev(<<>>, <<"Volleyball", "Pickup">>, <<"T18">>, <<"V1">>, <<>>,
                 <<"Volleyball">>, <<"/e1">>, <<"https://volo/e1">>, <<"co-ed">>)
\* no link that starts with http: the url falls back to DISCOVER_URL
EvOpenPlay == Ev(<<"Open", "Play">>, <<>>, <<"T19">>, <<"V1">>, <<"Pier">>,
                 <<"Volleyball">>, <<"/e3">>, <<>>, <<>>)
EvSoldOut  == Ev(<<"Volleyball", "Pickup">>, <<>>, <<"T19">>, <<"V1">>, <<>>,
                 <<"Volleyball">>, <<"https://volo/e4">>, <<>>, <<"SOLD", WS, "OUT">>)
EvOther    == Ev(<<"Volleyball", "League">>, <<>>, <<"T18">>, <<"V2">>, <<>>,
                 <<"Volleyball">>, <<"https://volo/e5">>, <<>>, <<>>)
\* a dict with one event key only
EvTitleOnly == Ev(<<"Volleyball", "Pickup">>, <<>>, <<>>, <<>>, <<>>,
                 <<>>, <<"https://volo/e6">>, <<>>, <<"V1">>)

EventPool == {EvPickup, EvPickupB, EvOpenPlay, EvSoldOut, EvOther, EvTitleOnly}

\* a response body: text that is not JSON, or a JSON array holding one dict
Garbage == [text |-> "html", data |-> <<>>]
Bodies == {Garbage} \cup {[text |-> "json", data |-> <<e>>] : e \in EventPool}

KeysOf(d) == {EventKeys[i] : i \in {j \in DOMAIN EventKeys : d[EventKeys[j]] # <<>>}}

\* the number of the event keys among the lower-cased keys of a dict
EventKeyHits(dictKeys) ==
    LET keys == {Lower(k) : k \in dictKeys}
    IN  Cardinality(keys \cap {"title", "name", "start", "starttime",
                                "startsat", "venue", "venueid", "sport"})

looks_like_event(d) == EventKeyHits(KeysOf(d)) >= 2

\* deep_iter over a parsed array of dicts reaches each dict of the array
extract_events(payload) == SelectSeq(payload, looks_like_event)

\* json.dumps(event): the keys and the string values of the dict, in order
Dumps(event) ==
    LET present == SelectSeq(EventKeys, LAMBDA k : event[k] # <<>>)
    IN  [i \in 1..(2 * Len(present)) |->
            IF i % 2 = 1 THEN <<present[(i + 1) \div 2]>>
                         ELSE event[present[i \div 2]]]

BlobHas(event, kw) ==
    \E i \in DOMAIN Dumps(event) : Contains(normalize(Dumps(event)[i]), kw)

venue_matches(event) ==
    \E i \in DOMAIN Dumps(event) : Contains(Dumps(event)[i], <<VENUE_ID>>)

is_volleyball(event) == BlobHas(event, <<"volleyball">>)

is_open_play(event) ==
    \E k \in DOMAIN OPEN_PLAY_KEYWORDS : BlobHas(event, OPEN_PLAY_KEYWORDS[k])

\* the marker is looked for in the serialization as it stands
is_available_raw(event) ==
    ~ \E i \in DOMAIN Dumps(event) :
          \/ Contains(Dumps(event)[i], <<"sold", "out">>)
          \/ Contains(Dumps(event)[i], <<"waitlist">>)

is_available(event) ==
    ~ (BlobHas(event, <<"sold", "out">>) \/ BlobHas(event, <<"waitlist">>))

\* main, lines 284-292: the tests of the filter chain, numbered in code order
FilterTest(n, event) ==
    CASE n = 1 -> venue_matches(event)
      [] n = 2 -> is_volleyball(event)
      [] n = 3 -> is_open_play(event)
      [] n = 4 -> is_available(event)

\* the dict with text appended to the value of one key (the venue key stands
\* for the name inside the nested venue dict)
WithText(event, k, text) == [event EXCEPT ![k] = @ \o text]

\* the dicts given to the filter chain: the fixtures, and each of them with
\* "SOLD  OUT" or "Waitlist" appended to each field
FilterInputs ==
    EventPool \cup {WithText(e, EventKeys[i], m) :
                       e \in EventPool, i \in DOMAIN EventKeys,
                       m \in {<<"SOLD", WS, "OUT">>, <<"Waitlist">>}}

\* the orders in which the four tests can be written
TestOrders ==
    {o \in [1..4 -> 1..4] : \A i \in 1..4 : \A j \in 1..4 : o[i] = o[j] => i = j}

CodeOrder == [i \in 1..4 |-> i]

\* no dict is being filtered
FcIdle == [event |-> EvTitleOnly, order |-> CodeOrder, pos |-> 1, verdict |-> "idle", by |-> 0]

\* the body of `for ev in json_events` at its first test
FcStart(event, order) ==
    [event |-> event, order |-> order, pos |-> 1, verdict |-> "testing", by |-> 0]

FirstNonEmpty(vals, default) ==
    IF \E i \in DOMAIN vals : vals[i] # <<>>
    THEN vals[CHOOSE i \in DOMAIN vals :
                 vals[i] # <<>> /\ \A j \in 1..(i - 1) : vals[j] = <<>>]
    ELSE default

\* " | ".join of the non-empty parts title, start, venue name
event_summary(event) ==
    LET title == FirstNonEmpty(<<event.title, event.name>>, DefaultTitle)
        start == event.start
        venue == event.venue
    IN  SelectSeq(<<title, start, venue>>, LAMBDA p : p # <<>>)

StartsWithHttp(v) == v \in {<<"https://volo/e1">>, <<"https://volo/e4">>,
                            <<"https://volo/e5">>, <<"https://volo/e6">>}

event_url(event) ==
    LET vals == <<event.url, event.link>>
    IN  IF \E i \in DOMAIN vals : StartsWithHttp(vals[i])
        THEN vals[CHOOSE i \in DOMAIN vals :
                     StartsWithHttp(vals[i]) /\ \A j \in 1..(i - 1) : ~ StartsWithHttp(vals[j])][1]
        ELSE DISCOVER_URL

(* ------------------------------ stable id ----------------------------- *)
WordCode(w) ==
    CASE w = "Volleyball" -> 1 [] w = "Pickup" -> 2 [] w = "Open" -> 3
      [] w = "Play" -> 4 [] w = "Gym" -> 5 [] w = "League" -> 6
      [] w = "Volo" -> 7 [] w = "T18" -> 8 [] w = "T19" -> 9
      [] w = "Pier" -> 10 [] w = "https://volo/e1" -> 11
      [] w = "https://volo/e4" -> 13
      [] w = "https://volo/e5" -> 14 [] w = "https://volo/e6" -> 16
      [] w = DISCOVER_URL -> 20 [] w = "|" -> 17 [] w = "||" -> 18
      [] OTHER -> 19

RECURSIVE Digest(_, _)
Digest(ws, h) ==
    IF ws = <<>> THEN h
    ELSE Digest(Tail(ws), (h * 31 + WordCode(Head(ws))) % HashSpace)

RECURSIVE Join(_, _)
Join(parts, sep) ==
    IF parts = <<>> THEN <<>>
    ELSE IF Len(parts) = 1 THEN parts[1]
    ELSE parts[1] \o <<sep>> \o Join(Tail(parts), sep)

\* sha256("||".join(parts)).hexdigest()[:16]
stable_id(summary, url) ==
    Digest(Join(<<Join(summary, "|"), <<url>>>>, "||"), 7 % HashSpace)

Ids == 0..(HashSpace - 1)

Range(s) == {s[i] : i \in DOMAIN s}

(* --------------------------- nested payloads -------------------------- *)
\* A parsed JSON value: a dict (keys and, in the same order, values), a list
\* (items) or a scalar. A node of the value is named by its path from the
\* root: the positions taken from each dict or list on the way.
Scalar == [type |-> "scalar", keys |-> <<>>, kids |-> <<>>]
List(items) == [type |-> "list", keys |-> <<>>, kids |-> items]
Dict(keys, values) == [type |-> "dict", keys |-> keys, kids |-> values]

\* the key pairs of the dicts of a payload: two event keys in mixed case, two
\* event keys in lower case, one event key and another key
KeyPairs == {<<"Title", "startTime">>, <<"venue", "venueid">>, <<"name", "id">>}

RECURSIVE Trees(_)
Trees(d) ==
    IF d = 0 THEN {Scalar}
    ELSE LET T == Trees(d - 1)
         IN  T \cup {List(<<>>), Dict(<<>>, <<>>)}
               \cup {List(<<a, b>>) : a \in T, b \in T}
               \cup {Dict(ks, <<a, Scalar>>) : ks \in KeyPairs, a \in T}

Payloads == Trees(MaxDepth)

RECURSIVE At(_, _)
At(tree, path) == IF path = <<>> THEN tree ELSE At(tree.kids[Head(path)], Tail(path))

\* a dict whose values are not followed
Children_flat(tree, path) ==
    IF At(tree, path).type = "dict" THEN <<>>
    ELSE [i \in DOMAIN At(tree, path).kids |-> Append(path, i)]

\* deep_iter, lines 94-97: what stack.extend() receives, the values of a dict
\* or the items of a list, in order; nothing for a scalar
Children(tree, path) == [i \in DOMAIN At(tree, path).kids |-> Append(path, i)]

\* extract_events, line 113
IsEventNode(node) == node.type = "dict" /\ EventKeyHits(Range(node.keys)) >= 2

\* no extract_events call in progress
ExIdle == [pc |-> "idle", payload |-> Scalar, stack |-> <<>>, visited |-> <<>>, events |-> <<>>]

\* extract_events(payload) at its first line: stack = [obj]
ExStart(payload) ==
    [pc |-> "iter", payload |-> payload, stack |-> << <<>> >>, visited |-> <<>>,
     events |-> <<>>]

(* ----------------------------- state file ----------------------------- *)
\* JSON values that can stand in seen.json: a string id is an element of Ids,
\* JNum a number, JNull null, JList a nested array (not hashable in a set).
JNum == 100
JNull == 0 - 1
JList == 0 - 2
JsonValues == Ids \cup {JNum, JNull, JList}

IsStr(v) == v \in Ids
TypeOf(v) == IF IsStr(v) THEN "str" ELSE IF v = JNum THEN "num" ELSE IF v = JNull THEN "null" ELSE "list"

AbsentFile == [kind |-> "absent", items |-> <<>>]

\* a file of zero bytes: not JSON
EmptyFile == [kind |-> "invalid", items |-> <<>>]

\* set(json.load(f)), any exception giving the empty set
load_seen(f) ==
    CASE f.kind = "absent"  -> {}
      [] f.kind = "invalid" -> {}
      [] f.kind = "scalar"  -> {}
      [] f.kind = "object"  -> Range(f.items)
      [] f.kind = "array"   -> IF JList \in Range(f.items) THEN {} ELSE Range(f.items)

\* the list in descending order
RECURSIVE Sorted_descending(_)
Sorted_descending(S) ==
    IF S = {} THEN <<>>
    ELSE LET m == CHOOSE x \in S : \A y \in S : y <= x
         IN  <<m>> \o Sorted_descending(S \ {m})

\* sorted(seen)
RECURSIVE Sorted(_)
Sorted(S) ==
    IF S = {} THEN <<>>
    ELSE LET m == CHOOSE x \in S : \A y \in S : x <= y
         IN  <<m>> \o Sorted(S \ {m})

\* sorted() compares the elements: values of different types do not compare
Sortable(S) == \A x \in S : \A y \in S : TypeOf(x) = TypeOf(y)

\* the first id of the sorted list is not written
save_seen_truncated(S) == [kind |-> "array", items |-> SubSeq(Sorted(S), 2, Cardinality(S))]

\* json.dump(sorted(seen), f)
save_seen(S) == [kind |-> "array", items |-> Sorted(S)]

\* what the watcher itself leaves on disk: nothing, or a sorted array of ids
ValidFiles == {AbsentFile} \cup {[kind |-> "array", items |-> Sorted(S)] : S \in SUBSET Ids}

\* anything else that can be found at the path of the state file
CorruptFiles ==
    {[kind |-> k, items |-> <<>>] : k \in {"invalid", "scalar"}}
    \cup {[kind |-> "object", items |-> <<i>>] : i \in Ids}
    \cup {[kind |-> "array", items |-> <<a>>] : a \in {JNum, JNull, JList}}
    \cup {[kind |-> "array", items |-> <<a, b>>] : a \in Ids, b \in {JNum, JNull, JList}}

\* the string ids held by the file
FileIds(f) == IF f.kind = "array" THEN {v \in Range(f.items) : IsStr(v)} ELSE {}

(* ------------------------------- state -------------------------------- *)
VARIABLES
    file,         \* content of seen.json
    pc,           \* position of main()
    run,          \* number of the current run
    cfg,          \* environment of the process: AUTO_SIGNUP, mail credentials
    seen,         \* main: seen
    loaded,       \* what load_seen() returned to this run
    filtered,     \* main: filtered
    idx,          \* position of the loop over filtered (1-based)
    new_found,    \* main: new_found
    discovered,   \* ids for which this run issued the "new session" notification, in order
    sendFailed,   \* ids of this run whose "new session" message the transport did not deliver
    signups,      \* number of attempt_signup calls of this run
    notifyCount,  \* per id, "new session" notifications over all runs (counted up to 2)
    reported,     \* ids for which this run issued the signup-outcome notification, in order
    writes,       \* number of times this run opened seen.json for writing
    fileAtLoad,   \* content of seen.json when load_seen() of this run read it
    ov,           \* two runs of main() started side by side on the same seen.json
    ex,           \* an extract_events call over a nested payload
    fc,           \* the filter chain of main() applied to one extracted dict
    sg            \* the attempt_signup call in progress

vars == <<file, pc, run, cfg, seen, loaded, filtered, idx, new_found,
          discovered, sendFailed, signups, notifyCount,
          reported, writes, fileAtLoad, ov, ex, fc, sg>>

Configs == [auto_signup : BOOLEAN, creds : BOOLEAN]

\* st: the stage of the signup flow the call has reached; storage_path: the
\* local of that name; queried: the page has been asked for its controls;
\* inspected: the body text has been read for risk markers
SgIdle ==
    [pc |-> "idle", st |-> "START", storage_path |-> "unset", queried |-> FALSE,
     inspected |-> FALSE,
     browser |-> "none", context |-> "none",
     buttons |-> <<>>, links |-> <<>>,
     clicks |-> <<>>, risky |-> FALSE, pending |-> "none",
     failed |-> FALSE, ret |-> "none"]

\* the two processes of an overlapping pair
Procs == {1, 2}

\* a process of the pair before its load_seen()
OvStart ==
    [pc |-> "start", seen |-> {}, loaded |-> {}, filtered |-> <<>>, idx |-> 1,
     discovered |-> <<>>, alone |-> TRUE]

InitWith(files) ==
    /\ file \in files
    /\ pc = "start"
    /\ run = 1
    /\ cfg \in Configs
    /\ seen = {}
    /\ loaded = {}
    /\ filtered = <<>>
    /\ idx = 1
    /\ new_found = 0
    /\ discovered = <<>>
    /\ sendFailed = {}
    /\ signups = 0
    /\ notifyCount = [i \in Ids |-> 0]
    /\ reported = <<>>
    /\ writes = 0
    /\ fileAtLoad = file
    /\ ov = [p \in Procs |-> OvStart]
    /\ sg = SgIdle

Init == InitWith(ValidFiles) /\ ex = ExIdle /\ fc = FcIdle

InitCorrupt == InitWith(CorruptFiles) /\ ex = ExIdle /\ fc = FcIdle

(* -------------------------------- main -------------------------------- *)
\* on_response: the events one response adds to json_events
on_response(resp) ==
    IF resp.text # "json" THEN <<>> ELSE extract_events(resp.data)

RECURSIVE Capture(_)
Capture(resps) ==
    IF resps = <<>> THEN <<>> ELSE on_response(Head(resps)) \o Capture(Tail(resps))

PassesFilters(ev) ==
    venue_matches(ev) /\ is_volleyball(ev) /\ is_open_play(ev) /\ is_available(ev)

\* the filters and the id are pure functions of the dict: one evaluation per dict of the pool
PassTable == [e \in EventPool |-> PassesFilters(e)]
SidTable == [e \in EventPool |-> stable_id(event_summary(e), event_url(e))]

FilterEvents(json_events) == SelectSeq(json_events, LAMBDA e : PassTable[e])

Sid(ev) == SidTable[ev]

ResponseSeqs == UNION {[1..n -> Bodies] : n \in 0..MaxResponses}

\* outcomes of send_sms_via_email under the credentials of the process
SendOutcomes == IF cfg.creds THEN {"sent", "raised"} ELSE {"nocreds"}

\* the membership test lost: every filtered event counts as new
IsNew_always(sid, s) == TRUE

\* main, lines 310-311: `if sid in seen: continue`
IsNew(sid, s) == sid \notin s

\* the id is not recorded
MarkSeen_skip(s, sid) == s

\* main, line 312: seen.add(sid)
MarkSeen(s, sid) == s \cup {sid}

\* the toggle read as off whatever the environment says
AutoSignup_off(c) == FALSE

\* main, line 317: `if AUTO_SIGNUP:`
AutoSignup(c) == c.auto_signup

\* notify(): the send is wrapped in try/except, so notify always returns
notify(outcome) == "returned"

Bump(n) == IF n < 2 THEN n + 1 ELSE 2

\* main, line 234: seen = load_seen()
LoadSeen ==
    /\ pc = "start"
    /\ seen' = load_seen(file)
    /\ loaded' = load_seen(file)
    /\ fileAtLoad' = file
    /\ pc' = "goto"
    /\ UNCHANGED <<ov, ex, fc, file, run, cfg, filtered, idx, new_found, discovered, sendFailed,
                   signups, notifyCount, reported, writes, sg>>

\* main, lines 236-293: page load with response capture, DOM read, filter chain
PageLoad ==
    /\ pc = "goto"
    /\ \E ok \in BOOLEAN :
          IF ok
          THEN \E resps \in ResponseSeqs :
                  /\ filtered' = FilterEvents(Capture(resps))
                  /\ pc' = "loop"
          ELSE /\ pc' = "load_failed"
               /\ UNCHANGED filtered
    /\ idx' = 1
    /\ UNCHANGED <<ov, ex, fc, file, run, cfg, seen, loaded, new_found, discovered, sendFailed,
                   signups, notifyCount, reported, writes, fileAtLoad, sg>>

\* the state file is rewritten each time an id is added
LoopStep_saving ==
    /\ pc = "loop"
    /\ IF idx > Len(filtered)
       THEN /\ pc' = "save"
            /\ UNCHANGED <<file, seen, idx, new_found>>
       ELSE IF ~ IsNew(Sid(filtered[idx]), seen)
       THEN /\ idx' = idx + 1
            /\ UNCHANGED <<file, pc, seen, new_found>>
       ELSE /\ seen' = MarkSeen(seen, Sid(filtered[idx]))
            /\ file' = save_seen(MarkSeen(seen, Sid(filtered[idx])))
            /\ new_found' = new_found + 1
            /\ pc' = "notify_found"
            /\ UNCHANGED idx
    /\ UNCHANGED <<ov, ex, fc, run, cfg, loaded, filtered, discovered, sendFailed,
                   signups, notifyCount, reported, writes, fileAtLoad, sg>>

\* main, lines 306-313: next element of filtered, dedup against seen
LoopStep ==
    /\ pc = "loop"
    /\ IF idx > Len(filtered)
       THEN /\ pc' = "save"
            /\ UNCHANGED <<seen, idx, new_found>>
       ELSE IF ~ IsNew(Sid(filtered[idx]), seen)
       THEN /\ idx' = idx + 1
            /\ UNCHANGED <<pc, seen, new_found>>
       ELSE /\ seen' = MarkSeen(seen, Sid(filtered[idx]))
            /\ new_found' = new_found + 1
            /\ pc' = "notify_found"
            /\ UNCHANGED idx
    /\ UNCHANGED <<ov, ex, fc, file, run, cfg, loaded, filtered, discovered, sendFailed,
                   signups, notifyCount, reported, writes, fileAtLoad, sg>>

\* main, lines 315-318: notify("New Volo Open Play found ..."), then the AUTO_SIGNUP branch
NotifyFound ==
    /\ pc = "notify_found"
    /\ \E outcome \in SendOutcomes :
          /\ discovered' = Append(discovered, Sid(filtered[idx]))
          /\ notifyCount' = [notifyCount EXCEPT ![Sid(filtered[idx])] = Bump(@)]
          /\ sendFailed' = IF outcome = "sent" THEN sendFailed
                           ELSE sendFailed \cup {Sid(filtered[idx])}
          /\ IF notify(outcome) # "returned"
             THEN /\ pc' = "aborted"
                  /\ UNCHANGED <<idx, signups, sg>>
             ELSE IF AutoSignup(cfg)
             THEN /\ pc' = "signup"
                  /\ signups' = signups + 1
                  /\ sg' = [SgIdle EXCEPT !.pc = "start"]
                  /\ UNCHANGED idx
             ELSE /\ pc' = "loop"
                  /\ idx' = idx + 1
                  /\ UNCHANGED <<signups, sg>>
    /\ UNCHANGED <<ov, ex, fc, file, run, cfg, seen, loaded, filtered, new_found, reported, writes, fileAtLoad>>

\* main, lines 318-322: attempt_signup has ended; its exception ends the run
SignupReturn ==
    /\ pc = "signup"
    /\ sg.ret # "none"
    /\ pc' = IF sg.ret = "raise" THEN "aborted" ELSE "notify_signup"
    /\ sg' = [SgIdle EXCEPT !.ret = sg.ret]
    /\ UNCHANGED <<ov, ex, fc, file, run, cfg, seen, loaded, filtered, idx, new_found, discovered,
                   sendFailed, signups, notifyCount, reported, writes, fileAtLoad>>

\* main, lines 319-322: the notify() that reports the signup outcome
NotifySignup ==
    /\ pc = "notify_signup"
    /\ \E outcome \in SendOutcomes :
          IF notify(outcome) # "returned"
          THEN /\ pc' = "aborted"
               /\ UNCHANGED idx
          ELSE /\ pc' = "loop"
               /\ idx' = idx + 1
    /\ reported' = Append(reported, Sid(filtered[idx]))
    /\ sg' = SgIdle
    /\ UNCHANGED <<ov, ex, fc, file, run, cfg, seen, loaded, filtered, new_found, discovered,
                   sendFailed, signups, notifyCount, writes, fileAtLoad>>

\* main, line 332: save_seen(seen); open(STATE_FILE, "w") has emptied the file
\* when sorted() raises, and the exception ends the run
SaveSeen ==
    /\ pc = "save"
    /\ IF Sortable(seen)
       THEN /\ file' = save_seen(seen)
            /\ pc' = "done"
       ELSE /\ file' = EmptyFile
            /\ pc' = "aborted"
    /\ writes' = writes + 1
    /\ UNCHANGED <<ov, ex, fc, run, cfg, seen, loaded, filtered, idx, new_found, discovered,
                   sendFailed, signups, notifyCount, reported, fileAtLoad, sg>>

\* the next invocation of the script, one run at a time
NextRun ==
    /\ pc \in {"done", "aborted", "load_failed"}
    /\ run < MaxRuns
    /\ run' = run + 1
    /\ pc' = "start"
    /\ seen' = {}
    /\ loaded' = {}
    /\ filtered' = <<>>
    /\ idx' = 1
    /\ new_found' = 0
    /\ discovered' = <<>>
    /\ sendFailed' = {}
    /\ signups' = 0
    /\ reported' = <<>>
    /\ writes' = 0
    /\ fileAtLoad' = file
    /\ sg' = SgIdle
    /\ UNCHANGED <<ov, ex, fc, file, cfg, notifyCount>>

(* --------------------------- attempt_signup --------------------------- *)
SignupLabels == << <<"Register">>, <<"Join">>, <<"Sign", "up">>, <<"Sign", "Up">>, <<"Enroll">> >>

RiskMarkers == << <<"captcha">>, <<"payment">>, <<"card", "number">>, <<"checkout">>,
                  <<"verify">>, <<"3d", "secure">> >>

\* the texts of the body of a page
\* the buttons (or the links) a page can show, by accessible name, in document
\* order: none, none that matches, one label matched late in the document by
\* two controls, and a match of a later label only
ControlSeqs ==
    { <<>>,
      << <<"Cancel">> >>,
      << <<"Sign", "Up">>, <<"Register", "Now">>, <<"Register">> >>,
      << <<"Cancel">>, <<"Sign", "Up">> >> }
PageTexts == {<<"Welcome">>, <<"Captcha">>, <<"Card", WS, "Number">>}

\* get_by_role(..., name=re.compile(label, re.I)): case-insensitive search in the name
LabelMatches(name, label) == Contains(normalize(name), normalize(label))

\* index of the first label of SignupLabels that some control matches, 0 if none
FirstLabel(controls) ==
    IF \E k \in DOMAIN SignupLabels : \E c \in Range(controls) : LabelMatches(c, SignupLabels[k])
    THEN CHOOSE k \in DOMAIN SignupLabels :
            /\ \E c \in Range(controls) : LabelMatches(c, SignupLabels[k])
            /\ \A j \in 1..(k - 1) :
                  ~ \E c \in Range(controls) : LabelMatches(c, SignupLabels[j])
    ELSE 0

\* the last of the matching controls instead of the first
Locate_last(controls, k) ==
    CHOOSE i \in DOMAIN controls :
        /\ LabelMatches(controls[i], SignupLabels[k])
        /\ \A j \in DOMAIN controls : LabelMatches(controls[j], SignupLabels[k]) => j <= i

\* locator.first: the position of the first control matching label k
Locate(controls, k) ==
    CHOOSE i \in DOMAIN controls :
        /\ LabelMatches(controls[i], SignupLabels[k])
        /\ \A j \in DOMAIN controls : LabelMatches(controls[j], SignupLabels[k]) => i <= j

\* the click of lines 194 / 202 on the winning control
ClickOn(role, controls) ==
    [role |-> role, label |-> FirstLabel(controls), pos |-> Locate(controls, FirstLabel(controls))]

IsRisky(text) == \E r \in DOMAIN RiskMarkers : Contains(normalize(text), RiskMarkers[r])

\* what the call finds: no secret, a secret that does not decode, a file that
\* cannot be written, or a snapshot written to disk
Snapshots == {"empty", "undecodable", "unwritable", "ok"}

\* None when there is no secret or the try block raised, else the path
write_storage_state_from_secret(snapshot) ==
    IF snapshot = "ok" THEN "storage_state.json" ELSE "None"

\* an exception that no handler of attempt_signup catches: it leaves the call
Escapes(s) == [s EXCEPT !.failed = TRUE, !.pending = "none", !.ret = "raise", !.pc = "end"]

\* outcomes of the finally block: both closes succeed, or one of them raises
Cleanups == {"ok", "context_close_raises", "browser_close_raises"}

\* lines 228-230: context.close(), browser.close(), then the pending return;
\* a raising context.close() leaves before browser.close()
Finally(s, cleanup) ==
    CASE cleanup = "ok" ->
            [s EXCEPT !.context = "closed", !.browser = "closed", !.ret = s.pending, !.pc = "end"]
      [] cleanup = "context_close_raises" -> Escapes(s)
      [] cleanup = "browser_close_raises" -> Escapes([s EXCEPT !.context = "closed"])

\* a `return value` inside the try block, under each outcome of the finally block;
\* the controls found are dropped with the frame
Return(s, value) ==
    {Finally([s EXCEPT !.buttons = <<>>, !.links = <<>>, !.pending = value], c) : c \in Cleanups}

\* an exception inside the try block: the except clause returns False
Caught(s) == Return([s EXCEPT !.failed = TRUE], "false")

SgFrame == UNCHANGED <<ov, ex, fc, file, pc, run, cfg, seen, loaded, filtered, idx, new_found,
                       discovered, sendFailed, signups, notifyCount,
                       reported, writes, fileAtLoad>>

\* attempt_signup, lines 172-175
SgStart ==
    /\ pc = "signup" /\ sg.pc = "start"
    /\ \E snapshot \in Snapshots :
          sg' = IF write_storage_state_from_secret(snapshot) = "None"
                THEN [sg EXCEPT !.storage_path = "None", !.ret = "false", !.pc = "end"]
                ELSE [sg EXCEPT !.storage_path = write_storage_state_from_secret(snapshot),
                                !.pc = "launch"]
    /\ SgFrame

\* attempt_signup, line 177: playwright.chromium.launch
SgLaunch ==
    /\ pc = "signup" /\ sg.pc = "launch"
    /\ \E ok \in BOOLEAN :
          sg' = IF ok THEN [sg EXCEPT !.browser = "open", !.pc = "context"] ELSE Escapes(sg)
    /\ SgFrame

\* attempt_signup, line 178: browser.new_context
SgContext ==
    /\ pc = "signup" /\ sg.pc = "context"
    /\ \E ok \in BOOLEAN :
          sg' = IF ok THEN [sg EXCEPT !.context = "open", !.pc = "page"] ELSE Escapes(sg)
    /\ SgFrame

\* attempt_signup, line 179: context.new_page
SgPage ==
    /\ pc = "signup" /\ sg.pc = "page"
    /\ \E ok \in BOOLEAN :
          sg' = IF ok THEN [sg EXCEPT !.pc = "goto"] ELSE Escapes(sg)
    /\ SgFrame

\* attempt_signup, lines 182-187: navigation and the login check
SgGoto ==
    /\ pc = "signup" /\ sg.pc = "goto"
    /\ \E outcome \in {"raises", "login", "ok"} :
          sg' \in CASE outcome = "raises" -> Caught(sg)
                    [] outcome = "login"  -> Return([sg EXCEPT !.st = "LOGIN_EXPIRED"], "false")
                    [] outcome = "ok"     -> {[sg EXCEPT !.st = "NAVIGATED", !.pc = "buttons"]}
    /\ SgFrame

\* attempt_signup, lines 192-197: first label with a matching button, click it
SgButtons ==
    /\ pc = "signup" /\ sg.pc = "buttons"
    /\ \/ sg' \in Caught(sg)
       \/ \E btns \in ControlSeqs :
             sg' = IF FirstLabel(btns) = 0
                   THEN [sg EXCEPT !.buttons = btns, !.queried = TRUE, !.pc = "links"]
                   ELSE [sg EXCEPT !.buttons = btns, !.queried = TRUE, !.pc = "risk",
                                   !.st = "BUTTON_FOUND",
                                   !.clicks = Append(@, ClickOn("button", btns))]
    /\ SgFrame

\* attempt_signup, lines 199-209: the same over links, then "No Register/Join button found"
SgLinks ==
    /\ pc = "signup" /\ sg.pc = "links"
    /\ \/ sg' \in Caught(sg)
       \/ \E lnks \in ControlSeqs :
             sg' \in IF FirstLabel(lnks) = 0
                     THEN Return([sg EXCEPT !.st = "NO_BUTTON"], "false")
                     ELSE {[sg EXCEPT !.links = lnks, !.pc = "risk", !.st = "BUTTON_FOUND",
                                      !.clicks = Append(@, ClickOn("link", lnks))]}
    /\ SgFrame

\* the body text is not read: the call goes on to the confirmation
SgRisk_skipped ==
    /\ pc = "signup" /\ sg.pc = "risk"
    /\ sg' = [sg EXCEPT !.buttons = <<>>, !.links = <<>>, !.pc = "confirm"]
    /\ SgFrame

\* attempt_signup, lines 211-217: read the body text, stop on a risk marker
SgRisk ==
    /\ pc = "signup" /\ sg.pc = "risk"
    /\ \/ sg' \in Caught(sg)
       \/ \E text \in PageTexts :
             sg' \in IF IsRisky(text)
                     THEN Return([sg EXCEPT !.risky = TRUE, !.inspected = TRUE,
                                            !.st = "RISK_DETECTED"], "false")
                     ELSE {[sg EXCEPT !.buttons = <<>>, !.links = <<>>, !.inspected = TRUE,
                                      !.pc = "confirm"]}
    /\ SgFrame

\* attempt_signup, lines 219-224: click a confirmation button when there is one
SgConfirm ==
    /\ pc = "signup" /\ sg.pc = "confirm"
    /\ \/ sg' \in Caught(sg)
       \/ \E present \in BOOLEAN :
             sg' \in IF present
                     THEN Return([sg EXCEPT !.st = "DONE",
                                            !.clicks = Append(@, [role |-> "confirm", label |-> 0, pos |-> 1])],
                                 "true")
                     ELSE Return([sg EXCEPT !.st = "DONE"], "true")
    /\ SgFrame

(* ---------------------------- specification --------------------------- *)
Next ==
    \/ LoadSeen
    \/ PageLoad
    \/ LoopStep
    \/ NotifyFound
    \/ SgStart
    \/ SgLaunch
    \/ SgContext
    \/ SgPage
    \/ SgGoto
    \/ SgButtons
    \/ SgLinks
    \/ SgRisk
    \/ SgConfirm
    \/ SignupReturn
    \/ NotifySignup
    \/ SaveSeen
    \/ NextRun

\* runs over a state file the watcher wrote itself (or no file yet)
Spec == Init /\ [][Next]_vars

\* runs over a state file holding anything else
SpecCorrupt == InitCorrupt /\ [][Next]_vars

(* --------------------------- overlapping runs ------------------------- *)
\* Two processes run main() on the same seen.json with no lock: the steps of
\* main() that read or write the file or issue a notification, per process.
OvFrame == UNCHANGED <<ex, fc, pc, run, cfg, seen, loaded, filtered, idx, new_found, discovered,
                       sendFailed, signups, notifyCount, reported, writes, fileAtLoad, sg>>

\* what an attempt_signup call and the notify() after it leave to main
SignupResults == {"true", "false", "raise"}

\* the process is not between its load_seen() and the end of its run
Outside(q) == ov[q].pc \in {"start", "load_failed", "aborted", "done"}

\* main, line 234; alone records whether the other process was outside its run
OvLoadSeen(p) ==
    /\ ov[p].pc = "start"
    /\ ov' = [ov EXCEPT ![p].seen = load_seen(file), ![p].loaded = load_seen(file),
                        ![p].alone = \A q \in Procs \ {p} : Outside(q),
                        ![p].pc = "goto"]
    /\ UNCHANGED file
    /\ OvFrame

\* main, lines 236-293
OvPageLoad(p) ==
    /\ ov[p].pc = "goto"
    /\ \E ok \in BOOLEAN :
          IF ok
          THEN \E resps \in ResponseSeqs :
                  ov' = [ov EXCEPT ![p].filtered = FilterEvents(Capture(resps)),
                                   ![p].pc = "loop"]
          ELSE ov' = [ov EXCEPT ![p].pc = "load_failed"]
    /\ UNCHANGED file
    /\ OvFrame

\* main, lines 306-313
OvLoopStep(p) ==
    /\ ov[p].pc = "loop"
    /\ ov' = IF ov[p].idx > Len(ov[p].filtered)
             THEN [ov EXCEPT ![p].pc = "save"]
             ELSE IF ~ IsNew(Sid(ov[p].filtered[ov[p].idx]), ov[p].seen)
             THEN [ov EXCEPT ![p].idx = @ + 1]
             ELSE [ov EXCEPT ![p].seen = MarkSeen(@, Sid(ov[p].filtered[ov[p].idx])),
                             ![p].pc = "notify_found"]
    /\ UNCHANGED file
    /\ OvFrame

\* main, lines 315-317
OvNotifyFound(p) ==
    /\ ov[p].pc = "notify_found"
    /\ ov' = IF AutoSignup(cfg)
             THEN [ov EXCEPT ![p].discovered = Append(@, Sid(ov[p].filtered[ov[p].idx])),
                             ![p].pc = "signup"]
             ELSE [ov EXCEPT ![p].discovered = Append(@, Sid(ov[p].filtered[ov[p].idx])),
                             ![p].pc = "loop", ![p].idx = @ + 1]
    /\ UNCHANGED file
    /\ OvFrame

\* main, lines 318-322: the attempt_signup call and the notify() of its outcome
OvSignup(p) ==
    /\ ov[p].pc = "signup"
    /\ \E result \in SignupResults :
          ov' = IF result = "raise" THEN [ov EXCEPT ![p].pc = "aborted"]
                ELSE [ov EXCEPT ![p].pc = "loop", ![p].idx = @ + 1]
    /\ UNCHANGED file
    /\ OvFrame

\* main, line 332
OvSaveSeen(p) ==
    /\ ov[p].pc = "save"
    /\ IF Sortable(ov[p].seen)
       THEN /\ file' = save_seen(ov[p].seen)
            /\ ov' = [ov EXCEPT ![p].pc = "done"]
       ELSE /\ file' = EmptyFile
            /\ ov' = [ov EXCEPT ![p].pc = "aborted"]
    /\ OvFrame

NextOverlap ==
    \/ \E p \in Procs : OvLoadSeen(p)
    \/ \E p \in Procs : OvPageLoad(p)
    \/ \E p \in Procs : OvLoopStep(p)
    \/ \E p \in Procs : OvNotifyFound(p)
    \/ \E p \in Procs : OvSignup(p)
    \/ \E p \in Procs : OvSaveSeen(p)

\* two runs started side by side over a state file the watcher wrote itself
SpecOverlap == Init /\ [][NextOverlap]_vars

(* ---------------------------- extract_events -------------------------- *)
ExFrame == UNCHANGED <<file, pc, run, cfg, seen, loaded, filtered, idx, new_found, discovered,
                       sendFailed, signups, notifyCount, reported, writes, fileAtLoad,
                       ov, fc, sg>>

\* one turn of `for node in deep_iter(payload)`: pop the last entry of the
\* stack, yield it, push its children; the loop body appends an event dict
ExNext ==
    /\ ex.pc = "iter"
    /\ ex.stack # <<>>
    /\ LET cur == ex.stack[Len(ex.stack)]
           rest == SubSeq(ex.stack, 1, Len(ex.stack) - 1)
       IN  ex' = [ex EXCEPT !.stack = rest \o Children(ex.payload, cur),
                            !.visited = Append(@, cur),
                            !.events = IF IsEventNode(At(ex.payload, cur))
                                       THEN Append(@, cur) ELSE @]
    /\ ExFrame

\* the stack is empty: deep_iter is exhausted and extract_events returns events
ExReturn ==
    /\ ex.pc = "iter"
    /\ ex.stack = <<>>
    /\ ex' = [ex EXCEPT !.pc = "done"]
    /\ ExFrame

NextExtract == ExNext \/ ExReturn

InitExtract ==
    /\ InitWith({AbsentFile})
    /\ cfg = [auto_signup |-> FALSE, creds |-> FALSE]
    /\ ex \in {ExStart(p) : p \in Payloads}
    /\ fc = FcIdle

(* ----------------------------- filter chain --------------------------- *)
FcFrame == UNCHANGED <<file, pc, run, cfg, seen, loaded, filtered, idx, new_found, discovered,
                       sendFailed, signups, notifyCount, reported, writes, fileAtLoad,
                       ov, ex, sg>>

\* main, lines 284-291: the next test of the chain; `continue` when it fails
FcTest ==
    /\ fc.verdict = "testing"
    /\ fc.pos <= 4
    /\ fc' = IF FilterTest(fc.order[fc.pos], fc.event)
             THEN [fc EXCEPT !.pos = @ + 1]
             ELSE [fc EXCEPT !.verdict = "rejected", !.by = fc.order[fc.pos]]
    /\ FcFrame

\* main, line 292: filtered.append(ev)
FcAppend ==
    /\ fc.verdict = "testing"
    /\ fc.pos > 4
    /\ fc' = [fc EXCEPT !.verdict = "kept"]
    /\ FcFrame

NextFilter == FcTest \/ FcAppend

InitFilter ==
    /\ InitWith({AbsentFile})
    /\ cfg = [auto_signup |-> FALSE, creds |-> FALSE]
    /\ ex = ExIdle
    /\ fc \in {FcStart(e, o) : e \in FilterInputs, o \in TestOrders}

\* the filter chain over each input dict, its tests written in each order
SpecFilter == InitFilter /\ [][NextFilter]_vars

\* extract_events over each payload; the loop runs on while it has a turn to take
SpecExtract == InitExtract /\ [][NextExtract]_vars /\ WF_vars(NextExtract)

(* ------------------------------- claims ------------------------------- *)
FilteredIds == {Sid(filtered[i]) : i \in DOMAIN filtered}

NewIds == FilteredIds \ loaded

\* main has captured the payload of this run and is at or past the loop
PastLoad == pc \in {"loop", "notify_found", "signup", "notify_signup", "save", "done", "aborted"}

IsIdArray(f) == f.kind = "array" /\ \A i \in DOMAIN f.items : IsStr(f.items[i])

ConfirmClicked == \E i \in DOMAIN sg.clicks : sg.clicks[i].role = "confirm"

\* C1: over all runs, one at a time, the "new session found" notification is
\* issued at most once for every StableId (never twice in a run, never again
\* in a later run).
C1_NotifiedOncePerSession == \A i \in Ids : notifyCount[i] <= 1

\* C2: when the loaded SeenSet holds the id of every filtered event, the run
\* issues no notification, makes no signup attempt, is not aborted, and the
\* SeenSet it saves equals the one it loaded.
C2_Idempotent ==
    (PastLoad /\ FilteredIds \subseteq loaded) =>
        /\ discovered = <<>>
        /\ new_found = 0
        /\ signups = 0
        /\ pc # "aborted"
        /\ (pc = "done" => file.kind = "array" /\ Range(file.items) = loaded)

C2_Witness ==
    /\ pc = "done"
    /\ Len(filtered) = 2
    /\ FilteredIds \subseteq loaded
    /\ Cardinality(FilteredIds) = 2

\* C3: in a completed run that loaded S, the number of discovery notifications
\* is the number of distinct filtered ids outside S, and the saved SeenSet is
\* exactly S united with those ids.
C3_RunResult ==
    pc = "done" =>
        /\ Len(discovered) = Cardinality(NewIds)
        /\ Range(discovered) = NewIds
        /\ file.kind = "array"
        /\ Range(file.items) = loaded \cup NewIds

C3_Witness ==
    /\ pc = "done"
    /\ loaded # {}
    /\ Len(filtered) = 2
    /\ Len(discovered) = 1
    /\ Cardinality(FilteredIds) = 1

\* C4: a failure of the transport inside notify() does not abort the run and
\* does not keep the event from being marked seen: the id is in the in-memory
\* SeenSet when the send is attempted, and it is in the persisted SeenSet when
\* the run has ended.
C4_TransportFailureKeepsSeen ==
    /\ (pc = "notify_found" => Sid(filtered[idx]) \in seen)
    /\ (pc \in {"done", "aborted"} => sendFailed \subseteq FileIds(file))

\* C5: load_seen() returns the empty SeenSet for every file content other than
\* a JSON array of string ids, and the save_seen() of that run succeeds (the
\* run is aborted by nothing but an exception of attempt_signup).
C5_LoadFailSoft ==
    /\ (pc \in {"goto", "loop", "save"} /\ ~ IsIdArray(file)) => loaded = {}
    /\ (pc = "aborted" => sg.ret = "raise")

\* C6: attempt_signup never lets an exception reach its caller; when a step
\* of the call has failed the call returns False.
C6_SignupNeverRaises ==
    /\ sg.ret # "raise"
    /\ (sg.pc = "end" /\ sg.failed => sg.ret = "false")

\* C7: when the page text read after the registration click holds a risk
\* marker, the call returns False and no confirmation control is clicked.
C7_RiskAbort ==
    (sg.pc = "end" /\ sg.risky) => (sg.ret = "false" /\ ~ ConfirmClicked)

\* C8: when attempt_signup ends, on any exit path, no browser it launched and
\* no context it created is still open.
C8_CleanupOnEveryExit ==
    sg.pc = "end" => (sg.browser # "open" /\ sg.context # "open")

\* C9: after the page load of a run has succeeded nothing is fatal to the run:
\* the run is never aborted, and when it has ended every id it notified is in
\* the state file.
C9_NothingFatalAfterLoad ==
    /\ pc # "aborted"
    /\ (pc \in {"done", "aborted"} => Range(discovered) \subseteq FileIds(file))

\* C10: no step of any run removes an id from the state file: the ids in the
\* file after a step are a superset of the ids in the file before it.
C10_PersistedGrows == [][FileIds(file) \subseteq FileIds(file')]_vars

C10_Witness ==
    /\ pc = "done"
    /\ loaded # {}
    /\ discovered # <<>>
    /\ FileIds(file) = loaded \cup Range(discovered)

\* number of positions of seq holding x
Count(seq, x) == Cardinality({i \in DOMAIN seq : seq[i] = x})

\* ids this run has added to the in-memory SeenSet
Added == seen \ loaded

\* main is between two events of the loop, or past the loop
BetweenEvents == pc \in {"loop", "save", "done"}

\* C11 (as stated): in a run, notify() is invoked exactly once for each event
\* newly added to the SeenSet, with or without automated signup and whatever
\* the signup outcome.
C11_OneNotifyPerNewEvent ==
    BetweenEvents =>
        \A i \in Ids :
            Count(discovered, i) + Count(reported, i) = IF i \in Added THEN 1 ELSE 0

\* C11 (amended): the "new session found" notify() is invoked exactly once for
\* each event newly added to the SeenSet and for no other; with automated
\* signup enabled every attempt_signup call that returns is followed by one
\* further notify() reporting its outcome (two invocations for the event),
\* with it disabled there is no further invocation.
C11_DiscoveryOncePlusOutcome ==
    /\ \A i \in Ids :
          Count(discovered, i) =
              IF i \in Added /\ ~ (pc = "notify_found" /\ i = Sid(filtered[idx])) THEN 1 ELSE 0
    /\ Len(reported) <= Len(discovered)
    /\ reported = SubSeq(discovered, 1, Len(reported))
    /\ (BetweenEvents => reported = IF cfg.auto_signup THEN discovered ELSE <<>>)
    /\ (~ cfg.auto_signup => reported = <<>>)

C11_Witness ==
    /\ pc = "done"
    /\ cfg.auto_signup
    /\ Len(discovered) = 2
    /\ reported = discovered

\* the two runs of the pair did not overlap: each loaded while the other was
\* outside its run
OneAtATime == \A p \in Procs : ov[p].alone

\* some id has been notified by both runs of the pair
DoubleNotify == Range(ov[1].discovered) \cap Range(ov[2].discovered) # {}

\* both runs have saved and an id notified by one of them is not in the file
LostUpdate ==
    /\ \A p \in Procs : ov[p].pc = "done"
    /\ \E p \in Procs : ~ (Range(ov[p].discovered) \subseteq FileIds(file))

\* C12: two overlapping runs can reach double-notify and lost update (the two
\* states below are reachable); with at most one run executing at a time
\* neither double-notify nor lost update is reachable.
C12_OneAtATimeSafe == OneAtATime => (~ DoubleNotify /\ ~ LostUpdate)

\* C12, first half: reachable outcomes of two overlapping runs
C12_DoubleNotifyReached ==
    /\ ~ OneAtATime
    /\ \A p \in Procs : ov[p].pc = "done"
    /\ DoubleNotify

C12_LostUpdateReached ==
    /\ ~ OneAtATime
    /\ LostUpdate

\* C12, second half without the double notification: runs that do not
\* overlap lose no update
C12_OneAtATimeNoLostUpdate == OneAtATime => ~ LostUpdate

SgTerminal == {"LOGIN_EXPIRED", "NO_BUTTON", "RISK_DETECTED", "DONE"}

\* the edges of START -> NAVIGATED -> {LOGIN_EXPIRED | NO_BUTTON | BUTTON_FOUND}
\* -> {RISK_DETECTED | DONE}; the login check belongs to the navigation step
SgEdge(a, b) ==
    \/ a = b
    \/ a = "START" /\ b \in {"NAVIGATED", "LOGIN_EXPIRED"}
    \/ a = "NAVIGATED" /\ b \in {"NO_BUTTON", "BUTTON_FOUND"}
    \/ a = "BUTTON_FOUND" /\ b \in {"RISK_DETECTED", "DONE"}

RegistrationClicks == {i \in DOMAIN sg.clicks : sg.clicks[i].role \in {"button", "link"}}

\* the call is one of a run and has not been handed back to main yet
InCall == pc = "signup"

\* C13: every attempt_signup execution moves along the edges of the state
\* machine; it returns true only in DONE (a snapshot was available, the
\* location was not a login page, a registration control was clicked, the
\* risk check found no marker), and in every other state it ends in it
\* returns false.
C13_StateMachine ==
    [][(InCall /\ sg'.pc # "idle") =>
          /\ SgEdge(sg.st, sg'.st)
          /\ (sg'.pc = "end" =>
                /\ (sg'.st = "DONE" => sg'.ret = "true")
                /\ (sg'.st # "DONE" => sg'.ret = "false")
                /\ (sg'.ret = "true" =>
                      /\ sg'.browser # "none"
                      /\ RegistrationClicks # {}
                      /\ ~ sg'.risky))]_vars

\* C13, the part that holds: a call that returns true ended in DONE with a
\* browser launched from a snapshot, a registration click and no risk marker,
\* and no call returns true from another state.
C13_TrueOnlyInDone ==
    (sg.pc = "end" /\ sg.ret = "true") =>
        /\ sg.st = "DONE"
        /\ sg.browser # "none"
        /\ RegistrationClicks # {}
        /\ ~ sg.risky
        /\ ~ sg.failed

\* some control of the sequence matches label k
HasMatch(controls, k) == \E i \in DOMAIN controls : LabelMatches(controls[i], SignupLabels[k])

\* click c went to the first control, in document order, matching the first
\* label, in list order, that any control of the sequence matches
PicksFirst(c, controls) ==
    /\ c.label \in DOMAIN SignupLabels
    /\ c.pos \in DOMAIN controls
    /\ LabelMatches(controls[c.pos], SignupLabels[c.label])
    /\ \A k \in 1..(c.label - 1) : ~ HasMatch(controls, k)
    /\ \A j \in 1..(c.pos - 1) : ~ LabelMatches(controls[j], SignupLabels[c.label])

\* the registration click has just been made
JustClicked == InCall /\ sg.pc = "risk"

\* C14: the registration click goes to a button when any button matches any
\* label, else to a link; the first label in list order with a match wins and
\* the first matching control for that label is the one clicked; when neither
\* a button nor a link matches, the call ends in NO_BUTTON, returns false and
\* has clicked nothing.
C14_ControlSelection ==
    /\ JustClicked =>
          /\ Len(sg.clicks) = 1
          /\ (sg.clicks[1].role = "button" => PicksFirst(sg.clicks[1], sg.buttons))
          /\ (sg.clicks[1].role = "link" =>
                /\ \A k \in DOMAIN SignupLabels : ~ HasMatch(sg.buttons, k)
                /\ PicksFirst(sg.clicks[1], sg.links))
          /\ (sg.clicks[1].role # "button" =>
                \A k \in DOMAIN SignupLabels : ~ HasMatch(sg.buttons, k))
    /\ (sg.pc = "end" /\ sg.st = "NO_BUTTON") => (sg.ret = "false" /\ sg.clicks = <<>>)

\* C14 without the return value of the NO_BUTTON exit
C14_SelectionOnly ==
    /\ JustClicked =>
          /\ Len(sg.clicks) = 1
          /\ sg.clicks[1].role \in {"button", "link"}
          /\ (sg.clicks[1].role = "button" => PicksFirst(sg.clicks[1], sg.buttons))
          /\ (sg.clicks[1].role = "link" =>
                /\ \A k \in DOMAIN SignupLabels : ~ HasMatch(sg.buttons, k)
                /\ PicksFirst(sg.clicks[1], sg.links))
    /\ (sg.pc = "end" /\ sg.st = "NO_BUTTON") => sg.clicks = <<>>

\* a button matching a later label stands before the first of two buttons that
\* match the winning label
C14_SelectionReached ==
    /\ JustClicked
    /\ sg.clicks[1].role = "button"
    /\ sg.clicks[1].pos = 2
    /\ sg.clicks[1].label = 1
    /\ HasMatch(sg.buttons, 3)
    /\ LabelMatches(sg.buttons[3], SignupLabels[1])

\* C15: no control is clicked unless a browser context was created from a
\* credential snapshot and the location after navigation was not a login
\* page; with no snapshot the call returns false without launching a browser
\* or navigating; on a login location the call returns false without having
\* queried or clicked any control.
C15_NoClickWithoutSession ==
    /\ sg.clicks # <<>> =>
          /\ sg.storage_path = "storage_state.json"
          /\ sg.browser # "none" /\ sg.context # "none"
          /\ sg.st \notin {"START", "LOGIN_EXPIRED"}
    /\ (sg.pc = "end" /\ sg.storage_path = "None") =>
          /\ sg.ret = "false"
          /\ sg.browser = "none" /\ sg.context = "none"
          /\ sg.st = "START"
    /\ (sg.pc = "end" /\ sg.st = "LOGIN_EXPIRED") =>
          /\ sg.ret = "false"
          /\ ~ sg.queried
          /\ sg.clicks = <<>>

\* C15 without the return value of the login exit
C15_GuardsOnly ==
    /\ sg.clicks # <<>> =>
          /\ sg.storage_path = "storage_state.json"
          /\ sg.browser # "none" /\ sg.context # "none"
          /\ sg.st \notin {"START", "LOGIN_EXPIRED"}
    /\ (sg.pc = "end" /\ sg.storage_path = "None") =>
          /\ sg.ret = "false"
          /\ sg.browser = "none" /\ sg.context = "none"
          /\ sg.st = "START"
    /\ (sg.pc = "end" /\ sg.st = "LOGIN_EXPIRED") =>
          /\ ~ sg.queried
          /\ sg.clicks = <<>>

ClicksOf(clicks, roles) == {i \in DOMAIN clicks : clicks[i].role \in roles}

\* a step of the call in progress (not the hand-over of its result to main)
CallStep == InCall /\ sg'.pc # "idle"

\* the step adds a click to those of the call in progress
NewClick == CallStep /\ Len(sg'.clicks) = Len(sg.clicks) + 1

\* C16: within one attempt_signup execution at most one registration control
\* and at most one confirmation control are clicked, and a confirmation click
\* is made only after the registration click and after the page text has been
\* inspected for risk markers (and none was found).
C16_ClickOrder ==
    [][/\ CallStep => Len(sg'.clicks) \in {Len(sg.clicks), Len(sg.clicks) + 1}
       /\ NewClick =>
             LET c == sg'.clicks[Len(sg'.clicks)]
             IN  /\ SubSeq(sg'.clicks, 1, Len(sg.clicks)) = sg.clicks
                 /\ c.role \in {"button", "link"} => sg.clicks = <<>>
                 /\ c.role = "confirm" =>
                       /\ Cardinality(ClicksOf(sg.clicks, {"button", "link"})) = 1
                       /\ ClicksOf(sg.clicks, {"confirm"}) = {}
                       /\ sg.inspected /\ ~ sg.risky]_vars

C16_Witness ==
    /\ sg.pc = "end"
    /\ sg.ret = "true"
    /\ Len(sg.clicks) = 2
    /\ sg.clicks[1].role = "link"
    /\ sg.clicks[2].role = "confirm"
    /\ sg.inspected

StrictlyAscending(items) ==
    \A i \in DOMAIN items : \A j \in DOMAIN items : i < j => items[i] < items[j]

\* C17: a run writes the state file exactly once, at its end, after the loop
\* over the matched events is over (with or without new events), and not at
\* all before; what it writes is the whole in-memory SeenSet as an array in
\* ascending order without duplicates.
C17_SavedOnceAtEnd ==
    /\ pc \in {"start", "goto", "loop", "notify_found", "signup", "notify_signup", "save"} =>
          /\ writes = 0
          /\ file = fileAtLoad
    /\ pc = "done" =>
          /\ writes = 1
          /\ idx > Len(filtered)
          /\ file.kind = "array"
          /\ Range(file.items) = seen
          /\ StrictlyAscending(file.items)

C17_Witness ==
    /\ pc = "done"
    /\ writes = 1
    /\ Len(file.items) = 2
    /\ Len(discovered) = 1
    /\ file # fileAtLoad

\* C17, the path without new events: the file is written all the same
C17_NoNewWitness ==
    /\ pc = "done"
    /\ writes = 1
    /\ new_found = 0
    /\ fileAtLoad = AbsentFile
    /\ file = save_seen({})

\* the run has ended without reaching save_seen()
EndedBeforeSave == pc \in {"aborted", "load_failed"} /\ writes = 0

\* ids notified by some run, now or earlier, that the file this run loaded
\* did not hold
LostIds == {i \in Ids : notifyCount[i] >= 1 /\ i \notin FileIds(fileAtLoad)}

\* C18: a run that ends abnormally before save_seen() leaves the state file
\* as load_seen() read it, whatever it has marked seen and notified: none of
\* the ids it notified is in the file; and a run that is shown an event whose
\* id was lost in this way treats it as new and notifies it again.
C18_AbortLosesIds ==
    /\ EndedBeforeSave =>
          /\ file = fileAtLoad
          /\ Range(discovered) \subseteq seen
          /\ Range(discovered) \cap FileIds(file) = {}
    /\ pc \in {"save", "done"} =>
          \A i \in FilteredIds \cap LostIds : i \in Range(discovered)

\* the second run notifies again an id that the first, aborted run had notified
C18_Witness ==
    /\ run = 2
    /\ pc = "done"
    /\ \E i \in Range(discovered) : notifyCount[i] = 2 /\ i \in FileIds(file)

\* the aborted run itself, with a notified id that is not in the file
C18_AbortReached ==
    /\ pc = "aborted"
    /\ Len(discovered) = 2
    /\ file = fileAtLoad

\* the paths of all nodes of a tree
RECURSIVE AllPaths(_)
AllPaths(tree) ==
    {<<>>} \cup UNION {{<<i>> \o p : p \in AllPaths(tree.kids[i])} : i \in DOMAIN tree.kids}

NoRepeat(seq) == \A i \in DOMAIN seq : \A j \in DOMAIN seq : seq[i] = seq[j] => i = j

ClaimKeys == {"title", "name", "start", "startTime", "startsAt", "venue", "venueId", "sport"}

\* the node is a mapping holding two of the keys, letter case aside
TwoEventKeys(node) ==
    /\ node.type = "dict"
    /\ \E k1 \in ClaimKeys : \E k2 \in ClaimKeys :
          /\ k1 # k2
          /\ \E i \in DOMAIN node.keys : Lower(node.keys[i]) = Lower(k1)
          /\ \E i \in DOMAIN node.keys : Lower(node.keys[i]) = Lower(k2)

ExDone == ex.pc = "done"

\* what holds of the call at every moment, and of its result
ExtractionInv ==
    /\ NoRepeat(ex.visited \o ex.stack)
    /\ Range(ex.visited) \cup Range(ex.stack) \subseteq AllPaths(ex.payload)
    /\ ExDone =>
          /\ Range(ex.visited) = AllPaths(ex.payload)
          /\ NoRepeat(ex.events)
          /\ Range(ex.events) = {p \in AllPaths(ex.payload) : TwoEventKeys(At(ex.payload, p))}
          /\ (ex.payload.type = "scalar" => ex.events = <<>>)

\* C19: extract_events over a finite nested payload terminates, visits every
\* node once and no node twice, and returns exactly the mapping nodes holding
\* at least two of the event keys (letter case aside), each once, at any depth
\* (a mapping inside a returned mapping included); a scalar payload yields
\* nothing.
C19_Extraction == [] ExtractionInv /\ <> ExDone

\* a returned mapping that is the first value of a returned mapping
C19_Witness ==
    /\ ExDone
    /\ Len(ex.events) >= 2
    /\ \E i \in DOMAIN ex.events : \E j \in DOMAIN ex.events :
          ex.events[j] = Append(ex.events[i], 1)
    /\ Len(ex.visited) >= 5

\* some field of the dict, the nested venue name included, holds a marker
\* ("sold out" or "waitlist", whatever the letter case and the blanks between
\* the words)
CarriesMarker(event) ==
    \E i \in DOMAIN EventKeys :
        \/ Contains(normalize(event[EventKeys[i]]), <<"sold", "out">>)
        \/ Contains(normalize(event[EventKeys[i]]), <<"waitlist">>)

\* the outcome of the chain written in code order
CodeOrderKeeps(event) == \A n \in 1..4 : FilterTest(CodeOrder[n], event)

\* C20: a dict is kept by the filter chain exactly when all four tests hold
\* of it, in whatever order the tests are made (the test that rejects may
\* differ, the outcome does not), and a dict with an exclusion marker in any
\* field is never kept.
C20_MatchSet ==
    /\ fc.verdict = "kept" =>
          /\ venue_matches(fc.event) /\ is_volleyball(fc.event)
          /\ is_open_play(fc.event) /\ is_available(fc.event)
          /\ ~ CarriesMarker(fc.event)
    /\ fc.verdict = "rejected" =>
          /\ ~ FilterTest(fc.by, fc.event)
          /\ ~ CodeOrderKeeps(fc.event)
    /\ fc.verdict \in {"kept", "rejected"} => (fc.verdict = "kept" <=> CodeOrderKeeps(fc.event))

\* the open-play fixture with "SOLD  OUT" in the nested venue name, rejected
\* by the availability test made first
C20_Witness ==
    /\ fc.verdict = "rejected"
    /\ fc.event = WithText(EvOpenPlay, "venue", <<"SOLD", WS, "OUT">>)
    /\ fc.order[1] = 4
    /\ fc.by = 4
    /\ \A n \in 1..3 : FilterTest(n, fc.event)

\* the same dict without the marker is kept, in an order other than the code's
C20_KeptWitness ==
    /\ fc.verdict = "kept"
    /\ fc.event = EvOpenPlay
    /\ fc.order # CodeOrder

\* C20 in the runs of main: every dict of filtered passes the four tests and
\* carries no marker
C20_FilteredClean ==
    \A i \in DOMAIN filtered : CodeOrderKeeps(filtered[i]) /\ ~ CarriesMarker(filtered[i])

====
